---- MODULE Spec2Model ----
(***************************************************************************)
(* Activity signup service (src/src/app.py): a two-table store (Activity,  *)
(* Participant), startup seeding, and the list / signup / unregister       *)
(* handlers.  Every handler is split at its storage statements, so that    *)
(* handlers running on different threadpool workers interleave between a   *)
(* SELECT and the following commit.  Spec lets the workers interleave;     *)
(* SpecSeq runs one request to completion before the next starts.          *)
(***************************************************************************)
EXTENDS Integers, FiniteSets, Sequences, Bags, TLC

\* ---------------------------------------------------------------- bounds
\* number of sign-ups a previous run of the server has already persisted
MaxFill == 8

\* threadpool workers that handle requests at the same time
Workers == {"w1", "w2"}

\* request inputs: path parameter activity_name and query parameter email;
\* interleaved requests all go to one activity (or to none)
ActivityNames == {"Chess Club", "Math Club", "Knitting Club"}
ConcurrentNames == {"Math Club", "Knitting Club"}
Emails == {"james@mergington.edu", "new1@mergington.edu", "new2@mergington.edu"}

\* the activity the earlier sign-ups went to, and the students who made them
FillActivity == "Math Club"
Fillers ==
   << "s1@mergington.edu", "s2@mergington.edu", "s3@mergington.edu",
      "s4@mergington.edu", "s5@mergington.edu", "s6@mergington.edu",
      "s7@mergington.edu", "s8@mergington.edu", "s9@mergington.edu",
      "s10@mergington.edu", "s11@mergington.edu", "s12@mergington.edu" >>

\* ---------------------------------------------------------------- storage
\* The Activity table is a set of rows with their primary keys.  The
\* Participant table is a bag of rows [email, activity_id]: the primary key of
\* a Participant is never shown to a client, so rows that agree on both
\* columns are told apart only by their age (copy 1 is the oldest).

\* primary key the store gives a new row of the Activity table
NewId(rows) ==
   IF rows = {} THEN 1
   ELSE (CHOOSE x \in {r.id : r \in rows} : \A y \in {r.id : r \in rows} : y <= x) + 1

Row(email, activity) == [email |-> email, activity_id |-> activity.id]

\* ---------------------------------------------------------------- seeding
samples ==
   << [name |-> "Chess Club",
       description |-> "Learn strategies and compete in chess tournaments",
       schedule |-> "Fridays, 3:30 PM - 5:00 PM",
       max_participants |-> 12,
       participants |-> <<"michael@mergington.edu", "daniel@mergington.edu">>],
      [name |-> "Programming Class",
       description |-> "Learn programming fundamentals and build software projects",
       schedule |-> "Tuesdays and Thursdays, 3:30 PM - 4:30 PM",
       max_participants |-> 20,
       participants |-> <<"emma@mergington.edu", "sophia@mergington.edu">>],
      [name |-> "Gym Class",
       description |-> "Physical education and sports activities",
       schedule |-> "Mondays, Wednesdays, Fridays, 2:00 PM - 3:00 PM",
       max_participants |-> 30,
       participants |-> <<"john@mergington.edu", "olivia@mergington.edu">>],
      [name |-> "Soccer Team",
       description |-> "Join the school soccer team and compete in matches",
       schedule |-> "Tuesdays and Thursdays, 4:00 PM - 5:30 PM",
       max_participants |-> 22,
       participants |-> <<"liam@mergington.edu", "noah@mergington.edu">>],
      [name |-> "Basketball Team",
       description |-> "Practice and play basketball with the school team",
       schedule |-> "Wednesdays and Fridays, 3:30 PM - 5:00 PM",
       max_participants |-> 15,
       participants |-> <<"ava@mergington.edu", "mia@mergington.edu">>],
      [name |-> "Art Club",
       description |-> "Explore your creativity through painting and drawing",
       schedule |-> "Thursdays, 3:30 PM - 5:00 PM",
       max_participants |-> 15,
       participants |-> <<"amelia@mergington.edu", "harper@mergington.edu">>],
      [name |-> "Drama Club",
       description |-> "Act, direct, and produce plays and performances",
       schedule |-> "Mondays and Wednesdays, 4:00 PM - 5:30 PM",
       max_participants |-> 20,
       participants |-> <<"ella@mergington.edu", "scarlett@mergington.edu">>],
      [name |-> "Math Club",
       description |-> "Solve challenging problems and participate in math competitions",
       schedule |-> "Tuesdays, 3:30 PM - 4:30 PM",
       max_participants |-> 10,
       participants |-> <<"james@mergington.edu", "benjamin@mergington.edu">>],
      [name |-> "Debate Team",
       description |-> "Develop public speaking and argumentation skills",
       schedule |-> "Fridays, 4:00 PM - 5:30 PM",
       max_participants |-> 12,
       participants |-> <<"charlotte@mergington.edu", "henry@mergington.edu">>] >>

\* session.add(activity); session.commit(); session.refresh(activity)
AddActivity(acts, s) ==
   acts \cup {[id |-> NewId(acts), name |-> s.name, description |-> s.description,
               schedule |-> s.schedule, max_participants |-> s.max_participants]}

\* p = Participant(email=email, activity_id=activity.id); session.add(p); session.commit()
InsertParticipant_Guarded(parts, email, activity) ==
   IF BagCardinality([r \in {x \in BagToSet(parts) : x.activity_id = activity.id} |-> parts[r]])
         >= activity.max_participants
   THEN parts
   ELSE parts (+) SetToBag({Row(email, activity)})

InsertParticipant_AnyActivity(parts, email, activity) ==
   parts (+) SetToBag({[email |-> email, activity_id |-> IF activity.id = 1 THEN 2 ELSE 1]})

InsertParticipant(parts, email, activity) ==
   parts (+) SetToBag({Row(email, activity)})

\* the inner loop of seed_data: one Participant per seeded email
RECURSIVE SeedParticipants(_, _, _, _)
SeedParticipants(parts, emails, activity, j) ==
   IF j > Len(emails) THEN parts
   ELSE SeedParticipants(InsertParticipant(parts, emails[j], activity), emails, activity, j + 1)

\* the outer loop of seed_data over samples, from the i-th sample on
RECURSIVE SeedLoop(_, _, _)
SeedLoop(acts, parts, i) ==
   IF i > Len(samples) THEN [activities |-> acts, participants |-> parts]
   ELSE LET acts2 == AddActivity(acts, samples[i])
            activity == CHOOSE a \in acts2 : a \notin acts
        IN  SeedLoop(acts2,
                     SeedParticipants(parts, samples[i].participants, activity, 1),
                     i + 1)

seed_data_Unguarded(acts, parts) == SeedLoop(acts, parts, 1)

\* seed sample activities if none exist
seed_data(acts, parts) ==
   IF acts # {} THEN [activities |-> acts, participants |-> parts]
   ELSE SeedLoop(acts, parts, 1)

\* ---------------------------------------------------------------- queries
NoActivity == [id |-> 0, name |-> "", description |-> "", schedule |-> "",
               max_participants |-> 0]

SelectActivity_Fallback(acts, activity_name) ==
   IF acts = {} THEN NoActivity
   ELSE IF \E a \in acts : a.name = activity_name
        THEN CHOOSE a \in acts : a.name = activity_name /\
                \A b \in acts : b.name = activity_name => a.id <= b.id
        ELSE CHOOSE a \in acts : \A b \in acts : a.id <= b.id

\* select(Activity).where(Activity.name == activity_name).first()
SelectActivity(acts, activity_name) ==
   IF \E a \in acts : a.name = activity_name
   THEN CHOOSE a \in acts : a.name = activity_name /\
           \A b \in acts : b.name = activity_name => a.id <= b.id
   ELSE NoActivity

\* select(Participant).where(Participant.activity_id == activity.id).all()
SelectParticipants(parts, activity) ==
   [r \in {x \in BagToSet(parts) : x.activity_id = activity.id} |-> parts[r]]

SelectParticipant_AnyActivity(parts, activity, email) ==
   IF \E r \in BagToSet(parts) : r.email = email THEN {1} ELSE {}

\* select(Participant).where(activity_id == activity.id).where(email == email):
\* the copies of the row that .first() may return
SelectParticipant(parts, activity, email) ==
   1..CopiesIn(Row(email, activity), parts)

DeleteParticipant_ByEmail(parts, row, copy) ==
   IF copy = 0 THEN parts
   ELSE [r \in {x \in BagToSet(parts) : x.email # row.email} |-> parts[r]]

\* session.delete(participant); session.commit(): DELETE by primary key, which
\* matches no row (copy = 0) when the row was deleted in the meantime
DeleteParticipant(parts, row, copy) ==
   IF copy = 0 THEN parts ELSE parts (-) SetToBag({row})

signup_check_NoDuplicateTest(roster, email, activity) ==
   IF BagCardinality(roster) >= activity.max_participants THEN "Activity is full"
   ELSE ""

signup_check_NoCapacityTest(roster, email, activity) ==
   IF \E p \in BagToSet(roster) : p.email = email THEN "Student is already signed up"
   ELSE ""

signup_check_OffByOne(roster, email, activity) ==
   IF \E p \in BagToSet(roster) : p.email = email THEN "Student is already signed up"
   ELSE IF BagCardinality(roster) > activity.max_participants THEN "Activity is full"
   ELSE ""

\* the two business rules of signup_for_activity; "" when both pass
signup_check(roster, email, activity) ==
   IF \E p \in BagToSet(roster) : p.email = email THEN "Student is already signed up"
   ELSE IF BagCardinality(roster) >= activity.max_participants THEN "Activity is full"
   ELSE ""

\* GET /activities: name -> details and the emails of its participants (the
\* query has no ORDER BY: the list is kept as the bag of its emails)
get_activities_result(acts, parts) ==
   [n \in {a.name : a \in acts} |->
      LET act == SelectActivity(acts, n)
          roster == SelectParticipants(parts, act)
      IN  [description |-> act.description,
           schedule |-> act.schedule,
           max_participants |-> act.max_participants,
           participants |-> [e \in {p.email : p \in BagToSet(roster)} |->
                               roster[Row(e, act)]]]]

\* a whole sign-up request run on its own, as a function of the store
SignupAlone(parts, acts, activity_name, email) ==
   LET activity == SelectActivity(acts, activity_name)
   IN  IF activity = NoActivity THEN parts
       ELSE IF signup_check(SelectParticipants(parts, activity), email, activity) # ""
            THEN parts
            ELSE InsertParticipant(parts, email, activity)

\* the store a previous run left behind: seeded, then k sign-ups one by one
RECURSIVE Prefilled(_)
Prefilled(k) ==
   IF k = 0 THEN seed_data({}, EmptyBag)
   ELSE LET s == Prefilled(k - 1)
        IN  [activities |-> s.activities,
             participants |-> SignupAlone(s.participants, s.activities,
                                          FillActivity, Fillers[k])]

\* ---------------------------------------------------------------- state
VARIABLES activities,    \* the Activity table
          participants,  \* the Participant table
          running,       \* the server process is up (on_startup has run)
          pc,            \* per worker: where its handler stands
          local,         \* per worker: the handler's activity, email, row
          last           \* the response of the request completed last

vars == <<activities, participants, running, pc, local, last>>

NoLocal == [activity |-> NoActivity, email |-> "", row |-> 0]

Response(op, activity_name, email, status, detail) ==
   [op |-> op, activity_name |-> activity_name, email |-> email,
    status |-> status, detail |-> detail]

Init ==
   /\ \E s \in {[activities |-> {}, participants |-> EmptyBag], Prefilled(MaxFill)} :
         /\ activities = s.activities
         /\ participants = s.participants
   /\ running = FALSE
   /\ pc = [w \in Workers |-> "idle"]
   /\ local = [w \in Workers |-> NoLocal]
   /\ last = Response("none", "", "", 0, "")

\* ---------------------------------------------------------------- lifecycle
on_startup ==
   /\ running = FALSE
   /\ LET s == seed_data(activities, participants)
      IN  /\ activities' = s.activities
          /\ participants' = s.participants
   /\ running' = TRUE
   /\ last' = Response("startup", "", "", 0, "")
   /\ UNCHANGED <<pc, local>>

\* the process exits once no request is in flight; the store file stays
Shutdown ==
   /\ running = TRUE
   /\ \A w \in Workers : pc[w] = "idle"
   /\ running' = FALSE
   /\ last' = Response("shutdown", "", "", 0, "")
   /\ UNCHANGED <<activities, participants, pc, local>>

\* ---------------------------------------------------------------- handlers
get_activities(w) ==
   /\ running /\ pc[w] = "idle"
   /\ last' = Response("list", "", "", 200, "")
   /\ UNCHANGED <<activities, participants, running, pc, local>>

Finish(w, r) ==
   /\ pc' = [pc EXCEPT ![w] = "idle"]
   /\ local' = [local EXCEPT ![w] = NoLocal]
   /\ last' = r

SignupSelectActivity(w, activity_name, email) ==
   /\ running /\ pc[w] = "idle"
   /\ LET activity == SelectActivity(activities, activity_name)
      IN  IF activity = NoActivity
          THEN Finish(w, Response("signup", activity_name, email, 404, "Activity not found"))
          ELSE /\ pc' = [pc EXCEPT ![w] = "signup_select_participants"]
               /\ local' = [local EXCEPT ![w] =
                              [activity |-> activity, email |-> email, row |-> 0]]
               /\ UNCHANGED last
   /\ UNCHANGED <<activities, participants, running>>

SignupSelectParticipants(w) ==
   /\ pc[w] = "signup_select_participants"
   /\ LET roster == SelectParticipants(participants, local[w].activity)
          detail == signup_check(roster, local[w].email, local[w].activity)
      IN  IF detail # ""
          THEN Finish(w, Response("signup", local[w].activity.name, local[w].email, 400, detail))
          ELSE /\ pc' = [pc EXCEPT ![w] = "signup_commit"]
               /\ UNCHANGED <<local, last>>
   /\ UNCHANGED <<activities, participants, running>>

SignupCommit(w) ==
   /\ pc[w] = "signup_commit"
   /\ participants' = InsertParticipant(participants, local[w].email, local[w].activity)
   /\ Finish(w, Response("signup", local[w].activity.name, local[w].email, 200, ""))
   /\ UNCHANGED <<activities, running>>

signup_for_activity(w, names, emails) ==
   \/ \E n \in names, e \in emails : SignupSelectActivity(w, n, e)
   \/ SignupSelectParticipants(w)
   \/ SignupCommit(w)

UnregisterSelectActivity(w, activity_name, email) ==
   /\ running /\ pc[w] = "idle"
   /\ LET activity == SelectActivity(activities, activity_name)
      IN  IF activity = NoActivity
          THEN Finish(w, Response("unregister", activity_name, email, 404, "Activity not found"))
          ELSE /\ pc' = [pc EXCEPT ![w] = "unregister_select_participant"]
               /\ local' = [local EXCEPT ![w] =
                              [activity |-> activity, email |-> email, row |-> 0]]
               /\ UNCHANGED last
   /\ UNCHANGED <<activities, participants, running>>

UnregisterSelectParticipant(w) ==
   /\ pc[w] = "unregister_select_participant"
   /\ LET found == SelectParticipant(participants, local[w].activity, local[w].email)
      IN  IF found = {}
          THEN Finish(w, Response("unregister", local[w].activity.name, local[w].email, 400,
                                  "Student is not signed up for this activity"))
          ELSE /\ \E participant \in found :
                     local' = [local EXCEPT ![w].row = participant]
               /\ pc' = [pc EXCEPT ![w] = "unregister_commit"]
               /\ UNCHANGED last
   /\ UNCHANGED <<activities, participants, running>>

\* the other handlers' references after w's DELETE: the deleted copy is gone,
\* younger copies of the same row move up by one
AfterDelete(w, v) ==
   IF /\ pc[v] = "unregister_commit" /\ local[w].row # 0
      /\ local[v].activity = local[w].activity /\ local[v].email = local[w].email
   THEN IF local[v].row = local[w].row THEN [local[v] EXCEPT !.row = 0]
        ELSE IF local[v].row > local[w].row THEN [local[v] EXCEPT !.row = @ - 1]
        ELSE local[v]
   ELSE local[v]

UnregisterCommit(w) ==
   /\ pc[w] = "unregister_commit"
   /\ participants' = DeleteParticipant(participants,
                                        Row(local[w].email, local[w].activity), local[w].row)
   /\ pc' = [pc EXCEPT ![w] = "idle"]
   /\ local' = [v \in Workers |-> IF v = w THEN NoLocal ELSE AfterDelete(w, v)]
   /\ last' = Response("unregister", local[w].activity.name, local[w].email, 200, "")
   /\ UNCHANGED <<activities, running>>

unregister_from_activity(w, names, emails) ==
   \/ \E n \in names, e \in emails : UnregisterSelectActivity(w, n, e)
   \/ UnregisterSelectParticipant(w)
   \/ UnregisterCommit(w)

Handle(w, names, emails) ==
   \/ get_activities(w)
   \/ signup_for_activity(w, names, emails)
   \/ unregister_from_activity(w, names, emails)

\* requests of different workers interleave at their storage statements
Next ==
   \/ on_startup
   \/ Shutdown
   \/ \E w \in Workers : Handle(w, ConcurrentNames, Emails)

Spec == Init /\ [][Next]_vars

\* one request at a time: a worker starts only when no other is mid-request
OthersIdle(w) == \A v \in Workers \ {w} : pc[v] = "idle"

NextSeq ==
   \/ on_startup
   \/ Shutdown
   \/ \E w \in Workers : OthersIdle(w) /\ Handle(w, ActivityNames, Emails)

SpecSeq == Init /\ [][NextSeq]_vars

\* ---------------------------------------------------------------- properties
Activity(activity_name) == SelectActivity(activities, activity_name)

\* number of Participant rows of an activity, now and after the step
Count(activity) == BagCardinality(SelectParticipants(participants, activity))
CountAfter(activity) == BagCardinality(SelectParticipants(participants', activity))

Enrolled(email, activity) == CopiesIn(Row(email, activity), participants) > 0

\* worker w runs the storage statement its handler stands at
Reads(w, at) == pc[w] = at /\ pc'[w] # at
Answers(w, op, status) ==
   /\ pc'[w] = "idle"
   /\ last'.op = op /\ last'.status = status
   /\ last'.activity_name = local[w].activity.name /\ last'.email = local[w].email

OtherRostersUnchanged(activity) ==
   \A a \in activities : a.id # activity.id =>
      SelectParticipants(participants', a) = SelectParticipants(participants, a)

\* C1: no activity ever has two Participant rows with the same email, also
\* when sign-up and unregister requests are handled at the same time.
C1_UniquePairs ==
   \A r \in BagToSet(participants) : CopiesIn(r, participants) = 1

\* C2: a sign-up for an activity whose participant count equals
\* max_participants is answered 400 and no roster changes.
C2_FullActivityRejects ==
   [][\A w \in Workers :
        (Reads(w, "signup_select_participants")
           /\ Count(local[w].activity) = local[w].activity.max_participants)
        => /\ Answers(w, "signup", 400)
           /\ participants' = participants
           /\ activities' = activities]_vars

C2_Witness ==
   /\ last.op = "signup" /\ last.status = 400 /\ last.detail = "Activity is full"
   /\ Count(Activity(last.activity_name)) = Activity(last.activity_name).max_participants
   /\ ~Enrolled(last.email, Activity(last.activity_name))

\* C3: a sign-up with an email already in the activity's roster is answered 400
\* and no roster changes; the same sign-up never succeeds twice in a row.
C3_DuplicateSignupRejects ==
   [][\A w \in Workers :
        /\ (Reads(w, "signup_select_participants")
              /\ Enrolled(local[w].email, local[w].activity))
           => /\ Answers(w, "signup", 400)
              /\ participants' = participants
              /\ activities' = activities
        /\ (Reads(w, "signup_commit")
              /\ last.op = "signup" /\ last.status = 200
              /\ last.activity_name = local[w].activity.name)
           => last.email # local[w].email]_vars

C3_Witness ==
   /\ last.op = "signup" /\ last.status = 400
   /\ last.detail = "Student is already signed up"
   /\ CopiesIn(Row(last.email, Activity(last.activity_name)), participants) = 1
   /\ Count(Activity(last.activity_name)) < Activity(last.activity_name).max_participants

\* C4: a sign-up with an email not in the roster of an activity that has room
\* succeeds and adds exactly one row, that email under that activity: the
\* activity's count grows by one, the listing shows the email under the
\* activity, and every other roster is as before.
C4_SignupAddsOneRow ==
   [][\A w \in Workers :
        /\ (Reads(w, "signup_select_participants")
              /\ ~Enrolled(local[w].email, local[w].activity)
              /\ Count(local[w].activity) < local[w].activity.max_participants)
           => /\ pc'[w] = "signup_commit"
              /\ participants' = participants
        /\ Reads(w, "signup_commit")
           => /\ ~Enrolled(local[w].email, local[w].activity)
              /\ Count(local[w].activity) < local[w].activity.max_participants
              /\ Answers(w, "signup", 200)
              /\ CountAfter(local[w].activity) = Count(local[w].activity) + 1
              /\ BagCardinality(participants') = BagCardinality(participants) + 1
              /\ CopiesIn(Row(local[w].email, local[w].activity), participants') = 1
              /\ local[w].email \in DOMAIN
                    get_activities_result(activities', participants')
                       [local[w].activity.name].participants
              /\ OtherRostersUnchanged(local[w].activity)
              /\ activities' = activities]_vars

C4_Witness ==
   /\ last.op = "signup" /\ last.status = 200
   /\ last.email = "new1@mergington.edu" /\ last.activity_name = "Chess Club"
   /\ Enrolled(last.email, Activity(last.activity_name))
   /\ Count(Activity("Chess Club")) = 3

\* C5: an unregister of an email that is in the activity's roster succeeds and
\* deletes exactly one row, with that email under that activity: the roster
\* shrinks by one and no other row goes.
C5_UnregisterDeletesOneRow ==
   [][\A w \in Workers :
        /\ (Reads(w, "unregister_select_participant")
              /\ Enrolled(local[w].email, local[w].activity))
           => /\ pc'[w] = "unregister_commit"
              /\ participants' = participants
        /\ Reads(w, "unregister_commit")
           => /\ Enrolled(local[w].email, local[w].activity)
              /\ Answers(w, "unregister", 200)
              /\ CountAfter(local[w].activity) = Count(local[w].activity) - 1
              /\ BagCardinality(participants') = BagCardinality(participants) - 1
              /\ \A r \in BagToSet(participants) :
                    CopiesIn(r, participants') =
                       IF r = Row(local[w].email, local[w].activity)
                       THEN CopiesIn(r, participants) - 1
                       ELSE CopiesIn(r, participants)
              /\ activities' = activities]_vars

C5_Witness ==
   /\ last.op = "unregister" /\ last.status = 200
   /\ last.email = "james@mergington.edu" /\ last.activity_name = "Math Club"
   /\ ~Enrolled(last.email, Activity("Math Club"))
   /\ Enrolled(last.email, Activity("Chess Club"))

\* C6: an unregister of an email that has no row under the activity is answered
\* 400 and no roster changes, also when the email is enrolled elsewhere.
C6_UnregisterAbsentRejects ==
   [][\A w \in Workers :
        (Reads(w, "unregister_select_participant")
           /\ ~Enrolled(local[w].email, local[w].activity))
        => /\ Answers(w, "unregister", 400)
           /\ participants' = participants
           /\ activities' = activities]_vars

C6_Witness ==
   /\ last.op = "unregister" /\ last.status = 400
   /\ last.email = "james@mergington.edu" /\ last.activity_name = "Chess Club"
   /\ ~Enrolled(last.email, Activity("Chess Club"))
   /\ Enrolled(last.email, Activity("Math Club"))

\* C7: sign-up and unregister for a name that matches no Activity are both
\* answered 404 whatever the email, and both tables stay as they are.
C7_UnknownActivityNotFound ==
   [][\A w \in Workers, n \in ActivityNames, e \in Emails :
        (~(\E a \in activities : a.name = n)) =>
           /\ SignupSelectActivity(w, n, e)
              => /\ last' = Response("signup", n, e, 404, "Activity not found")
                 /\ pc'[w] = "idle"
                 /\ UNCHANGED <<activities, participants>>
           /\ UnregisterSelectActivity(w, n, e)
              => /\ last' = Response("unregister", n, e, 404, "Activity not found")
                 /\ pc'[w] = "idle"
                 /\ UNCHANGED <<activities, participants>>]_vars

C7_Witness ==
   /\ last.status = 404 /\ last.op = "unregister"
   /\ last.activity_name = "Knitting Club"
   /\ activities # {}
   /\ \A a \in activities : a.name # last.activity_name

\* C8: the race for the last open slot is not prevented: a sign-up that has
\* read the roster inserts its row and is answered 200 whatever the count has
\* become, so two sign-ups that both read a roster of max_participants - 1
\* leave max_participants + 1 rows.
C8_CommitIgnoresCapacity ==
   [][\A w \in Workers :
        Reads(w, "signup_commit")
        => /\ Answers(w, "signup", 200)
           /\ CountAfter(local[w].activity) = Count(local[w].activity) + 1]_vars

C8_Witness ==
   /\ Count(Activity("Math Club")) = Activity("Math Club").max_participants + 1
   /\ Enrolled("new1@mergington.edu", Activity("Math Club"))
   /\ Enrolled("new2@mergington.edu", Activity("Math Club"))
   /\ C1_UniquePairs
   /\ last.op = "signup" /\ last.status = 200
   /\ \A w \in Workers : pc[w] = "idle"

\* C9: startup seeds only an empty Activity table, with the nine activities
\* and their two participants each; on a store that holds an Activity it
\* changes nothing, so no restart duplicates an activity or re-adds a
\* seeded participant who unregistered.
SeededNames == {samples[i].name : i \in 1..Len(samples)}

C9_SeedOnlyWhenEmpty ==
   /\ [][(running = FALSE /\ running' = TRUE) =>
           IF activities = {}
           THEN /\ {a.name : a \in activities'} = SeededNames
                /\ Cardinality(activities') = Len(samples)
                /\ BagCardinality(participants') = BagCardinality(participants) + 2 * Len(samples)
                /\ \A i \in 1..Len(samples) :
                      LET a == SelectActivity(activities', samples[i].name)
                      IN  /\ a.max_participants = samples[i].max_participants
                          /\ SelectParticipants(participants', a) =
                                SetToBag({Row(samples[i].participants[j], a) : j \in 1..2})
           ELSE activities' = activities /\ participants' = participants]_vars
   /\ [](/\ Cardinality({a.name : a \in activities}) = Cardinality(activities)
         /\ Cardinality(activities) \in {0, Len(samples)})

C9_Witness ==
   /\ last.op = "startup" /\ running
   /\ Cardinality(activities) = Len(samples)
   /\ ~Enrolled("james@mergington.edu", Activity("Math Club"))

\* C10: with requests run one at a time, no activity ever has more
\* Participant rows than its max_participants.
C10_CapacityRespected ==
   \A a \in activities : Count(a) <= a.max_participants

C10_Witness ==
   /\ last.op = "signup" /\ last.status = 200
   /\ Count(Activity(last.activity_name)) = Activity(last.activity_name).max_participants
====
